---- MODULE Spec2Model ----
(***************************************************************************)
(* Survey back end: response validation (ResponsesService), analytics      *)
(* aggregation (AnalyticsService) and the cache-aside policy around them   *)
(* (CacheService, SurveysService, QuestionsService, RealtimeService).      *)
(*                                                                         *)
(* Two specifications are defined over the same variables:                 *)
(*   Spec      the services as interleaved request handlers; every await   *)
(*             of a handler is a step boundary;                            *)
(*   FnSpec    the pure functions (validateResponse, the calculators)      *)
(*             applied to inputs drawn from bounded sets.                  *)
(***************************************************************************)
EXTENDS Integers, Sequences, FiniteSets, TLC

(***************************************************************************)
(* JavaScript values.  A value is a record [k, s, n]:                      *)
(*   k = "undef"  undefined (a key that is absent from an object)          *)
(*   k = "null"   null                                                     *)
(*   k = "str"    the string s                                             *)
(*   k = "num"    the number n / 1000 (numbers are kept in thousandths)    *)
(*   k = "nan"    NaN                                                      *)
(*   k = "fixed"  the string produced by toFixed(2): n / 100, 2 decimals   *)
(*   k = "bool"   true (n = 1) or false (n = 0)                            *)
(***************************************************************************)
Undef == [k |-> "undef", s |-> "", n |-> 0]

Null == [k |-> "null", s |-> "", n |-> 0]

NaN == [k |-> "nan", s |-> "", n |-> 0]

Str(x) == [k |-> "str", s |-> x, n |-> 0]

\* the number m / 1000
Milli(m) == [k |-> "num", s |-> "", n |-> m]

Bool(b) == [k |-> "bool", s |-> "", n |-> IF b THEN 1 ELSE 0]

\* the whole number i
Num(i) == Milli(i * 1000)

\* the string toFixed(2) yields for c / 100
Fixed(c) == [k |-> "fixed", s |-> "", n |-> c]

\* JavaScript truthiness: undefined, null, "", 0 and NaN are falsy
Truthy(v) ==
  CASE v.k = "str" -> v.s # ""
    [] v.k = "num" -> v.n # 0
    [] v.k = "fixed" -> TRUE
    [] v.k = "bool" -> v.n = 1
    [] OTHER -> FALSE

\* Number(s) for the strings of the model
StringToNumber(s) ==
  CASE s = "" -> Num(0)
    [] s = "0" -> Num(0)
    [] s = "1" -> Num(1)
    [] s = "2" -> Num(2)
    [] s = "3" -> Num(3)
    [] s = "4" -> Num(4)
    [] s = "5" -> Num(5)
    [] s = "9" -> Num(9)
    [] OTHER -> NaN

\* Number(v)
ToNumber(v) ==
  CASE v.k = "num" -> v
    [] v.k = "str" -> StringToNumber(v.s)
    [] v.k = "null" -> Num(0)
    [] v.k = "fixed" -> Milli(v.n * 10)
    [] v.k = "bool" -> Milli(v.n * 1000)
    [] OTHER -> NaN

\* String(n) for a number of the model, n in thousandths
NumberToString(n) ==
  CASE n = 0 -> "0"
    [] n = 1000 -> "1"
    [] n = 2000 -> "2"
    [] n = 3000 -> "3"
    [] n = 4000 -> "4"
    [] n = 5000 -> "5"
    [] n = 9000 -> "9"
    [] n = 2500 -> "2.5"
    [] n = 1004 -> "1.004"
    [] OTHER -> "#number"

\* the property key a value is coerced to by obj[v] and obj.hasOwnProperty(v)
ToPropertyKey(v) ==
  CASE v.k = "str" -> v.s
    [] v.k = "num" -> NumberToString(v.n)
    [] v.k = "null" -> "null"
    [] v.k = "undef" -> "undefined"
    [] v.k = "nan" -> "NaN"
    [] v.k = "bool" -> IF v.n = 1 THEN "true" ELSE "false"
    [] OTHER -> "#fixed"

\* isNaN(v) of a value already converted by Number()
IsNaN(v) == v.k # "num"

\* a < b on numbers: false as soon as one side is NaN
NumLt(a, b) == a.k = "num" /\ b.k = "num" /\ a.n < b.n

\* a <= b on numbers: false as soon as one side is NaN
NumLe(a, b) == a.k = "num" /\ b.k = "num" /\ a.n <= b.n

\* a / b rounded to the nearest integer, halves away from zero (b > 0)
RoundDiv(a, b) ==
  IF a >= 0 THEN (2 * a + b) \div (2 * b) ELSE -((2 * (-a) + b) \div (2 * b))

RECURSIVE SumSeq(_)
SumSeq(xs) == IF xs = <<>> THEN 0 ELSE Head(xs) + SumSeq(Tail(xs))

SeqRange(xs) == {xs[i] : i \in DOMAIN xs}

SetMin(S) == CHOOSE x \in S : \A y \in S : x <= y

SetMax(S) == CHOOSE x \in S : \A y \in S : x >= y

(***************************************************************************)
(* Objects.  answers is the submitted object as its Object.entries list:   *)
(* a sequence of [q, v] with distinct keys q, in enumeration order.        *)
(***************************************************************************)
\* answers[questionId]
Lookup(answers, questionId) ==
  LET idx == {i \in DOMAIN answers : answers[i].q = questionId}
  IN IF idx = {} THEN Undef ELSE answers[SetMax(idx)].v

\* a lookup that falls back to the last question for an unknown id
QuestionMapGetAny(questions, questionId) ==
  LET idx == {i \in DOMAIN questions : questions[i].id = questionId}
  IN IF idx = {} THEN <<questions[Len(questions)]>>
     ELSE <<questions[SetMax(idx)]>>

\* new Map(questions.map(q => [q.id, q])).get(questionId), as a 0/1 sequence
QuestionMapGet(questions, questionId) ==
  LET idx == {i \in DOMAIN questions : questions[i].id = questionId}
  IN IF idx = {} THEN <<>> ELSE <<questions[SetMax(idx)]>>

\* question.options.includes(answer): strict equality against option strings
OptionsInclude(options, answer) ==
  answer.k = "str" /\ answer.s \in SeqRange(options)

(***************************************************************************)
(* Questions.  A question is a record                                      *)
(*   [id, text, type, options, required, validation]                       *)
(* where options is <<>> (undefined) or <<list>> and validation is <<>>    *)
(* (undefined) or <<[min, max]>> with min and max JavaScript values.       *)
(***************************************************************************)
\* question.validation?.min
ValidationMin(question) ==
  IF question.validation = <<>> THEN Undef ELSE question.validation[1].min

\* question.validation?.max
ValidationMax(question) ==
  IF question.validation = <<>> THEN Undef ELSE question.validation[1].max

\* the outcome of a call that threw instead of returning
Threw == [threw |-> TRUE]

IsThrew(x) == "threw" \in DOMAIN x

Accept == [ok |-> TRUE, reason |-> "none", q |-> "none"]

Reject(reason, q) == [ok |-> FALSE, reason |-> reason, q |-> q]

\* the type-specific check of one submitted answer (the switch statement)
CheckAnswerType(question, answer) ==
  CASE question.type = "multiple_choice" ->
         IF question.options = <<>> THEN "TypeError"
         ELSE IF ~OptionsInclude(question.options[1], answer) THEN "InvalidOption"
         ELSE "none"
    [] question.type = "scale" ->
         IF question.validation = <<>> THEN "TypeError"
         ELSE LET numAnswer == ToNumber(answer)
              IN IF \/ IsNaN(numAnswer)
                    \/ NumLt(numAnswer, ToNumber(ValidationMin(question)))
                    \/ NumLt(ToNumber(ValidationMax(question)), numAnswer)
                 THEN "OutOfRange"
                 ELSE "none"
    [] OTHER -> "none"

\* the loop over Object.entries(responseDto.answers), from entry i on
RECURSIVE ValidateEntries(_, _, _)
ValidateEntries(questions, answers, i) ==
  IF i > Len(answers) THEN Accept
  ELSE LET questionId == answers[i].q
           answer == answers[i].v
           found == QuestionMapGet(questions, questionId)
       IN IF found = <<>> THEN Reject("QuestionNotFound", questionId)
          ELSE LET question == found[1]
               IN IF question.required /\ ~Truthy(answer)
                  THEN Reject("Required", questionId)
                  ELSE LET t == CheckAnswerType(question, answer)
                       IN IF t # "none" THEN Reject(t, questionId)
                          ELSE ValidateEntries(questions, answers, i + 1)

\* validateResponse without its second pass over the required questions
CheckRequiredSkipped(questions, answers, i) == Accept

\* the loop over the required questions, from question i on
RECURSIVE CheckRequired(_, _, _)
CheckRequired(questions, answers, i) ==
  IF i > Len(questions) THEN Accept
  ELSE IF questions[i].required /\ ~Truthy(Lookup(answers, questions[i].id))
       THEN Reject("RequiredNotAnswered", questions[i].id)
       ELSE CheckRequired(questions, answers, i + 1)

\* ResponsesService.validateResponse on the fetched question list
validateResponse(questions, answers) ==
  LET first == ValidateEntries(questions, answers, 1)
  IN IF ~first.ok THEN first ELSE CheckRequired(questions, answers, 1)

(***************************************************************************)
(* The calculators of AnalyticsService.  A response is [id, answers].        *)
(***************************************************************************)
\* resp.answers[question.id] for every response, in iteration order
AnswersFor(question, responses) ==
  [i \in DOMAIN responses |-> Lookup(responses[i].answers, question.id)]

RECURSIVE SumOver(_, _)
SumOver(f, S) ==
  IF S = {} THEN 0
  ELSE LET x == CHOOSE y \in S : TRUE IN f[x] + SumOver(f, S \ {x})

\* question.options.forEach((opt) => (counts[opt] = 0)) on counts = {}:
\* every option becomes an own property, except "__proto__", whose
\* assignment goes to the setter of Object.prototype, which ignores 0
InitialCounts(options) == [opt \in SeqRange(options) \ {"__proto__"} |-> 0]

\* counts.hasOwnProperty is the own property counts["hasOwnProperty"], a
\* number, when an option has that name: calling it is a TypeError
HasOwnPropertyShadowed(counts) == "hasOwnProperty" \in DOMAIN counts

\* answer && counts.hasOwnProperty(answer)
CountsAnswer(counts, answer) ==
  Truthy(answer) /\ ToPropertyKey(answer) \in DOMAIN counts

\* responses.forEach(...) of calculateMultipleChoice, from response i on:
\* the counts, or Threw when the call of counts.hasOwnProperty threw
RECURSIVE CountAnswers(_, _, _)
CountAnswers(counts, given, i) ==
  IF i > Len(given) THEN counts
  ELSE IF Truthy(given[i]) /\ HasOwnPropertyShadowed(counts) THEN Threw
  ELSE CountAnswers(
         IF CountsAnswer(counts, given[i])
         THEN [counts EXCEPT ![ToPropertyKey(given[i])] = @ + 1]
         ELSE counts,
         given, i + 1)

calculateMultipleChoice(question, responses) ==
  IF question.options = <<>> THEN Threw
  ELSE
    LET given == AnswersFor(question, responses)
        counts == CountAnswers(InitialCounts(question.options[1]), given, 1)
        total == SumOver(counts, DOMAIN counts)
    IN IF IsThrew(counts) THEN Threw ELSE
       [counts |-> counts,
        percentages |-> [opt \in DOMAIN counts |->
                           IF total > 0
                           THEN Fixed(RoundDiv(counts[opt] * 10000, total))
                           ELSE Num(0)],
        total |-> total]

\* whether the forEach body of calculateScale collects this answer
CollectsAnswer(answer) == answer.k # "undef" /\ answer.k # "null"

\* the values array of calculateScale: Number(answer) of each collected answer
RECURSIVE ScaleValues(_)
ScaleValues(given) ==
  IF given = <<>> THEN <<>>
  ELSE IF CollectsAnswer(Head(given))
       THEN <<ToNumber(Head(given))>> \o ScaleValues(Tail(given))
       ELSE ScaleValues(Tail(given))

\* the keys the distribution loop visits: min, min + 1, ... while <= max
DistributionKeys(min, max) ==
  IF min.k = "num" /\ max.k = "num" /\ min.n <= max.n
  THEN {min.n + 1000 * j : j \in 0..((max.n - min.n) \div 1000)}
  ELSE {}

calculateScale(question, responses) ==
  LET values == ScaleValues(AnswersFor(question, responses))
  IN IF Len(values) = 0
     THEN [average |-> Num(0), min |-> Num(0), max |-> Num(0), count |-> 0]
     ELSE IF question.validation = <<>> THEN Threw
     ELSE
       LET anyNaN == \E i \in DOMAIN values : values[i].k = "nan"
           nums == [i \in DOMAIN values |-> values[i].n]
           sum == SumSeq(nums)
           keys == DistributionKeys(ToNumber(ValidationMin(question)),
                                    ToNumber(ValidationMax(question)))
       IN [average |-> IF anyNaN THEN Str("NaN")
                       ELSE Fixed(RoundDiv(sum, 10 * Len(values))),
           min |-> IF anyNaN THEN NaN ELSE Milli(SetMin(SeqRange(nums))),
           max |-> IF anyNaN THEN NaN ELSE Milli(SetMax(SeqRange(nums))),
           count |-> Len(values),
           distribution |-> [i \in keys |->
              Cardinality({j \in DOMAIN values :
                 values[j].k = "num" /\ values[j].n = i})]]

\* the truthy answers to a question, with the index of their response
RECURSIVE TruthyAnswers(_, _)
TruthyAnswers(given, i) ==
  IF i > Len(given) THEN <<>>
  ELSE IF Truthy(given[i])
       THEN <<[text |-> given[i], submittedAt |-> i]>>
            \o TruthyAnswers(given, i + 1)
       ELSE TruthyAnswers(given, i + 1)

getTextResponses(question, responses) ==
  LET answers == TruthyAnswers(AnswersFor(question, responses), 1)
  IN [answers |-> answers, count |-> Len(answers)]

getDateResponses(question, responses) ==
  LET answers == TruthyAnswers(AnswersFor(question, responses), 1)
  IN [dates |-> [i \in DOMAIN answers |-> answers[i].text],
      count |-> Len(answers)]

\* the data of one question: the switch of calculateStats
QuestionData(question, responses) ==
  CASE question.type = "multiple_choice" ->
         calculateMultipleChoice(question, responses)
    [] question.type = "scale" -> calculateScale(question, responses)
    [] question.type = "text" -> getTextResponses(question, responses)
    [] question.type = "date" -> getDateResponses(question, responses)
    [] OTHER -> [empty |-> TRUE]

\* a totalResponses that counts only the responses answering the question
TotalResponsesAnswering(question, responses) ==
  Cardinality({i \in DOMAIN responses :
                 Lookup(responses[i].answers, question.id).k # "undef"})

\* stats[question.id].totalResponses = responses.length
TotalResponses(question, responses) == Len(responses)

\* the keys of the stats object in the order Object.values visits them:
\* the question ids in the order of their first assignment
RECURSIVE StatsKeys(_, _)
StatsKeys(questions, seen) ==
  IF questions = <<>> THEN <<>>
  ELSE IF Head(questions).id \in seen THEN StatsKeys(Tail(questions), seen)
  ELSE <<Head(questions).id>>
       \o StatsKeys(Tail(questions), seen \cup {Head(questions).id})

calculateStats(questions, responses) ==
  LET ids == {questions[i].id : i \in DOMAIN questions}
      last(id) == QuestionMapGet(questions, id)[1]
  IN IF \E i \in DOMAIN questions :
          IsThrew(QuestionData(questions[i], responses))
     THEN Threw
     ELSE [totalResponses |-> Len(responses),
           keys |-> StatsKeys(questions, {}),
           questions |-> [id \in ids |->
              [question |-> last(id).text,
               type |-> last(id).type,
               totalResponses |-> TotalResponses(last(id), responses),
               data |-> QuestionData(last(id), responses)]]]

\* AnalyticsService.convertToCSV: the lines of the text, each the
\* sequence of its comma-separated cells
convertToCSV(results) ==
  LET headers == <<"Response ID", "Submitted At">>
                 \o [j \in DOMAIN results.keys |->
                       results.questions[results.keys[j]].question]
  IN <<headers>>

(***************************************************************************)
(* State.                                                                  *)
(***************************************************************************)
VARIABLES
  config,        \* which collaborators the constructors configured
  surveyDoc,     \* the survey document of the store
  questionDocs,  \* the question documents of the survey, in store order
  responseDocs,  \* the response documents of the survey, in store order
  cache,         \* the cache entries survey:S, questions:S, analytics:S, responses:S
  events,        \* how many new-response events the survey's channel got
  proc,          \* the request handlers in flight
  calls,         \* requests started so far
  faults,        \* collaborator failures so far
  acked,         \* creates that have returned successfully so far
  overlap,       \* whether two requests were ever in flight together
  fnQuestions,   \* FnSpec: the question list given to the pure functions
  fnAnswers,     \* FnSpec: the answers object given to validateResponse
  fnResponses,   \* FnSpec: the responses given to the calculators
  fnOut,         \* FnSpec: the last function applied and what it returned
  created,       \* StoreSpec: how many question documents were ever added
  lastCall,      \* StoreSpec: the last handler called and how it ended
  limiter,       \* RateSpec: the ratelimit key and the callers of the limiter
  closed         \* whether an update of the survey to inactive has returned

sysVars ==
  <<config, surveyDoc, questionDocs, responseDocs, cache, events,
    proc, calls, faults, acked, overlap>>

fnVars == <<fnQuestions, fnAnswers, fnResponses, fnOut>>

edVars == <<created, lastCall>>

auxVars == <<limiter, closed>>

vars == <<sysVars, fnVars, edVars, auxVars>>

(***************************************************************************)
(* Bounds of the inputs of FnSpec.                                         *)
(***************************************************************************)
\* most entries of a submitted answers object
MaxEntries == 2

\* most responses handed to a calculator
MaxFnResponses == 2

\* the answer values submitted to the validator
ValidatorValues ==
  {Str(""), Str("A"), Str("X"), Str("1"), Num(1), Num(0), Num(9),
   Bool(TRUE)}

\* the answer values found in stored responses
StoredValues ==
  {Str(""), Str("A"), Str("B"), Str("1"), Str("abc"),
   Num(1), Num(0), Num(9), Milli(2500), Null}

NoValidation == <<>>

Bounds(lo, hi) == <<[min |-> lo, max |-> hi]>>

Question(id, type, options, required, validation) ==
  [id |-> id, text |-> id, type |-> type, options |-> options,
   required |-> required, validation |-> validation]

\* questions that pass the schema-level checks, with the id given
QuestionsWithId(id) ==
  {Question(id, "multiple_choice", <<opts>>, req, NoValidation) :
     opts \in {<<"A", "B">>, <<"A", "1">>, <<"hasOwnProperty", "B">>,
               <<"__proto__", "B">>},
     req \in BOOLEAN}
  \cup {Question(id, "scale", <<>>, req, Bounds(Num(1), Num(3))) :
     req \in BOOLEAN}
  \cup {Question(id, "scale", <<>>, FALSE, Bounds(Milli(1500), Num(3)))}
  \cup {Question(id, "text", <<>>, req, NoValidation) : req \in BOOLEAN}
  \cup {Question(id, "date", <<>>, FALSE, NoValidation)}

\* the second question of a two-question list
SecondQuestions ==
  {Question("q2", "multiple_choice", <<<<"A", "B">>>>, TRUE, NoValidation),
   Question("q2", "scale", <<>>, TRUE, Bounds(Num(1), Num(3))),
   Question("q2", "scale", <<>>, FALSE, Bounds(Num(1), Num(3))),
   Question("q2", "text", <<>>, FALSE, NoValidation)}

QuestionLists ==
  {<<q>> : q \in QuestionsWithId("q1")}
  \cup {<<q, r>> : q \in QuestionsWithId("q1"), r \in SecondQuestions}

AnswerKeys == {"q1", "q2", "q9"}

\* the answers objects with at most n entries
AnswerObjects(n, values) ==
  UNION {{a \in [1..m -> [q : AnswerKeys, v : values]] :
            \A i, j \in 1..m : i # j => a[i].q # a[j].q} : m \in 0..n}

\* stored responses that answer (or leave out) question q1
ResponseLists(n) ==
  UNION {[1..m -> {[id |-> 0, answers |-> a] :
                     a \in {<<>>} \cup {<<[q |-> "q1", v |-> v]>> :
                                          v \in StoredValues}}] :
         m \in 0..n}

(***************************************************************************)
(* The collaborators.  A failing call of a collaborator is an input of the *)
(* step that makes the call (fail = TRUE).                                 *)
(***************************************************************************)
\* JSON.stringify followed by the client's JSON.parse, on one value
JsonValue(v) == IF v.k \in {"nan", "undef"} THEN Null ELSE v

\* JSON.stringify followed by JSON.parse, on the data of one question
JsonData(data) ==
  IF "average" \in DOMAIN data
  THEN [f \in DOMAIN data |->
          IF f \in {"average", "min", "max"} THEN JsonValue(data[f])
          ELSE data[f]]
  ELSE data

\* JSON.stringify followed by JSON.parse, on a report
JsonReport(report) ==
  [report EXCEPT !.questions =
     [id \in DOMAIN report.questions |->
        [report.questions[id] EXCEPT !.data = JsonData(@)]]]

\* CacheService.get without its catch block: a failure is rethrown
CacheGetRethrows(redis, entry, fail) ==
  IF ~redis THEN [threw |-> FALSE, val |-> <<>>]
  ELSE IF fail THEN [threw |-> TRUE, val |-> <<>>]
  ELSE [threw |-> FALSE, val |-> entry]

\* CacheService.get: the value read, <<>> for null
CacheGet(redis, entry, fail) ==
  IF ~redis THEN [threw |-> FALSE, val |-> <<>>]
  ELSE IF fail THEN [threw |-> FALSE, val |-> <<>>]
  ELSE [threw |-> FALSE, val |-> entry]

\* a handler that takes every value read from the cache for a miss
CacheHitNever(cached) == FALSE

\* if (cached): the value read from the cache is a hit
CacheHit(cached) == cached # <<>>

\* a set that stores nothing
CacheSetDropped(redis, entry, value, fail) ==
  [threw |-> FALSE, entry |-> entry]

\* CacheService.set: the entry afterwards
CacheSet(redis, entry, value, fail) ==
  IF ~redis THEN [threw |-> FALSE, entry |-> entry]
  ELSE IF fail THEN [threw |-> FALSE, entry |-> entry]
  ELSE [threw |-> FALSE, entry |-> <<value>>]

\* CacheService.del: the entry afterwards
CacheDel(redis, entry, fail) ==
  IF ~redis THEN [threw |-> FALSE, entry |-> entry]
  ELSE IF fail THEN [threw |-> FALSE, entry |-> entry]
  ELSE [threw |-> FALSE, entry |-> <<>>]

\* docRef.get() on a document of the store: it rejects on failure
StoreRead(docs, fail) ==
  IF fail THEN [threw |-> TRUE, val |-> <<>>]
  ELSE [threw |-> FALSE, val |-> <<docs>>]

\* a query whose failure is swallowed and read as an empty collection
StoreQuerySwallows(docs, fail) ==
  IF fail THEN [threw |-> FALSE, val |-> <<<<>>>>]
  ELSE [threw |-> FALSE, val |-> <<docs>>]

\* a query on a collection of the store: it rejects on failure
StoreQuery(docs, fail) ==
  IF fail THEN [threw |-> TRUE, val |-> <<>>]
  ELSE [threw |-> FALSE, val |-> <<docs>>]

\* RealtimeService.trigger: skipped without Pusher, rethrows a failure
trigger(pusher, fail) ==
  IF ~pusher THEN [threw |-> FALSE, sent |-> FALSE]
  ELSE IF fail THEN [threw |-> TRUE, sent |-> FALSE]
  ELSE [threw |-> FALSE, sent |-> TRUE]

\* EmailService.sendResultsReport: skipped without Resend, rethrows a failure
sendResultsReport(resend, fail) ==
  IF ~resend THEN [threw |-> FALSE, sent |-> FALSE]
  ELSE IF fail THEN [threw |-> TRUE, sent |-> FALSE]
  ELSE [threw |-> FALSE, sent |-> TRUE]

(***************************************************************************)
(* The services.                                                           *)
(***************************************************************************)
\* most requests started in one behaviour
MaxCalls == 3

\* most collaborator failures in one behaviour
MaxFaults == 1

\* the clients: one submits responses, one reads the results
Respondents == {"p1"}

Analysts == {"p2"}

Procs == Respondents \cup Analysts

Owner == "owner"

Users == {Owner, "other"}

\* the questions of the survey: one required choice, one optional scale
SurveyQuestions ==
  <<Question("q1", "multiple_choice", <<<<"A", "B">>>>, TRUE, NoValidation),
    Question("q2", "scale", <<>>, FALSE, Bounds(Num(1), Num(3)))>>

\* the answers objects submitted to ResponsesService.create
SubmittedAnswers ==
  {<<[q |-> "q1", v |-> Str("B")], [q |-> "q2", v |-> Num(3)]>>,
   <<[q |-> "q1", v |-> Str("X")]>>}

NoResult == [kind |-> "none", report |-> <<>>, id |-> 0]

IdleProc ==
  [op |-> "idle", pc |-> "idle", stage |-> "none", user |-> "none",
   answers |-> <<>>, survey |-> <<>>, questions |-> <<>>,
   responses |-> <<>>, qpc |-> "none", rpc |-> "none", results |-> <<>>,
   eff |-> {}, hit |-> {}, result |-> NoResult, ackedAtStart |-> 0,
   closedAtStart |-> FALSE]

\* the survey as SurveysService.create stores it, then possibly deactivated
\* by an update or past its settings.expiresAt
SurveyStates ==
  {[createdBy |-> Owner, isActive |-> TRUE, expired |-> FALSE,
    responseCount |-> 0],
   [createdBy |-> Owner, isActive |-> FALSE, expired |-> FALSE,
    responseCount |-> 0],
   [createdBy |-> Owner, isActive |-> TRUE, expired |-> TRUE,
    responseCount |-> 0]}

\* the configurations the constructors can find
Configs ==
  {[redis |-> TRUE, pusher |-> TRUE, resend |-> TRUE],
   [redis |-> FALSE, pusher |-> FALSE, resend |-> FALSE]}

FnIdle ==
  /\ fnQuestions = <<>>
  /\ fnAnswers = <<>>
  /\ fnResponses = <<>>
  /\ fnOut = <<>>

EdIdle ==
  /\ created = 0
  /\ lastCall = <<>>

AuxIdle ==
  /\ limiter = <<>>
  /\ closed = FALSE

SysInit ==
  /\ config \in Configs
  /\ surveyDoc \in SurveyStates
  /\ questionDocs = SurveyQuestions
  /\ responseDocs = <<>>
  /\ cache = [survey |-> <<>>, questions |-> <<>>, analytics |-> <<>>,
              responses |-> <<>>]
  /\ events = 0
  /\ proc = [p \in Procs |-> IdleProc]
  /\ calls = 0
  /\ faults = 0
  /\ acked = 0
  /\ overlap = FALSE

Init == SysInit /\ FnIdle /\ EdIdle /\ AuxIdle

(***************************************************************************)
(* Helpers of the handlers.                                                *)
(***************************************************************************)
InFlight(p) == proc[p].pc \notin {"idle", "done"}

\* no handler has just returned.  A handler that has returned is retired
\* (Retire) before any other step is taken: retiring changes nothing but
\* the handler's own record, so no interleaving of the services is lost.
Ready == \A p \in Procs : proc[p].pc # "done"

\* whether the collaborator called by a step fails: a configured one may
Faults(configured) ==
  IF configured /\ faults < MaxFaults THEN BOOLEAN ELSE {FALSE}

Charge(fail) == faults' = faults + (IF fail THEN 1 ELSE 0)

\* the handler after a collaborator failed (fail) on a call of the given kind
Suffer(me, fail, kind) ==
  IF fail THEN [me EXCEPT !.hit = @ \cup {kind}] ELSE me

\* the handler returns or throws: kind is "ok" or the error
Finish(me, kind) ==
  [me EXCEPT !.pc = "done", !.result = [@ EXCEPT !.kind = kind],
             !.stage = "none", !.qpc = "none", !.rpc = "none",
             !.questions = <<>>, !.responses = <<>>, !.results = <<>>]

Start(p, op, stage, user, answers) ==
  /\ Ready
  /\ proc[p].pc = "idle"
  /\ calls < MaxCalls
  /\ calls' = calls + 1
  /\ proc' = [proc EXCEPT ![p] =
       [IdleProc EXCEPT !.op = op, !.pc = "s_get", !.stage = stage,
                        !.user = user, !.answers = answers,
                        !.ackedAtStart = acked,
                        !.closedAtStart = closed]]
  /\ overlap' = (overlap \/ \E q \in Procs \ {p} : InFlight(q))
  /\ UNCHANGED <<config, surveyDoc, questionDocs, responseDocs, cache,
                 events, faults, acked, fnVars, edVars, auxVars>>

\* ResponsesService.create is called
StartCreate(p) ==
  \E a \in SubmittedAnswers : Start(p, "create", "inner", "anonymous", a)

\* AnalyticsService.getResults is called
StartGetResults(p) ==
  \E u \in Users : Start(p, "getResults", "inner", u, <<>>)

\* AnalyticsService.exportToCSV is called
StartExport(p) ==
  \E u \in Users : Start(p, "exportToCSV", "outer", u, <<>>)

\* the survey object findOne returns, as far as the handlers read it
SurveyView(doc) ==
  [createdBy |-> doc.createdBy, isActive |-> doc.isActive,
   expired |-> doc.expired]

\* getPublicSurvey without the isActive check
getPublicSurveyOfInactive(survey) ==
  IF survey.expired THEN "NotFound" ELSE "ok"

\* SurveysService.getPublicSurvey after findOne returned the survey
getPublicSurvey(survey) ==
  IF ~survey.isActive THEN "NotFound"
  ELSE IF survey.expired THEN "NotFound"
  ELSE "ok"

\* the ownership check left out
OwnsSurveyUnchecked(survey, userId) == TRUE

\* survey.createdBy !== userId, negated
OwnsSurvey(survey, userId) == survey.createdBy = userId

\* what a handler does once SurveysService.findOne has returned
AfterFindOne(me) ==
  IF me.op = "create"
  THEN IF getPublicSurvey(me.survey[1]) # "ok"
       THEN Finish(me, getPublicSurvey(me.survey[1]))
       ELSE [me EXCEPT !.pc = "validate", !.qpc = "q_get", !.rpc = "done"]
  ELSE IF ~OwnsSurvey(me.survey[1], me.user) THEN Finish(me, "Forbidden")
       ELSE IF me.stage = "outer"
            THEN [me EXCEPT !.stage = "inner", !.pc = "s_get"]
            ELSE [me EXCEPT !.pc = "a_get"]

\* getResults has its report: it returns it, exportToCSV goes on to upload it
AfterResults(me) ==
  IF me.op = "getResults"
  THEN [Finish(me, "ok") EXCEPT !.result.report = me.results]
  ELSE [me EXCEPT !.pc = "upload"]

\* what a handler does once a fetch of findBySurvey / getResponses returned
Join(me) ==
  IF me.qpc # "done" \/ me.rpc # "done" THEN me
  ELSE IF me.pc = "bg" THEN Finish(me, me.result.kind)
  ELSE IF me.pc = "validate"
       THEN LET v == validateResponse(me.questions[1], me.answers)
            IN IF v.ok THEN [me EXCEPT !.pc = "add"]
               ELSE IF v.reason = "TypeError" THEN Finish(me, "TypeError")
               ELSE Finish(me, "BadRequest")
       ELSE LET results == calculateStats(me.questions[1], me.responses[1])
            IN IF IsThrew(results) THEN Finish(me, "TypeError")
               ELSE [me EXCEPT !.results = <<results>>, !.pc = "a_set"]

\* a fetch of Promise.all rejected: the caller gets the error at once, a
\* findBySurvey still under way runs to its end
FetchFailed(me, kind) ==
  IF me.pc = "bg" THEN Finish(me, me.result.kind)
  ELSE IF me.qpc \in {"q_get", "q_doc", "q_set"}
       THEN [me EXCEPT !.pc = "bg", !.result.kind = kind]
       ELSE Finish(me, kind)

(***************************************************************************)
(* SurveysService.findOne, called first by every handler modelled here.    *)
(***************************************************************************)
\* const cached = await this.cacheService.get(`survey:${id}`)
SurveyCacheGet(p) ==
  /\ Ready
  /\ proc[p].pc = "s_get"
  /\ \E fail \in Faults(config.redis) :
       LET r == CacheGet(config.redis, cache.survey, fail)
           me == Suffer(proc[p], fail, "cache")
       IN /\ Charge(fail)
          /\ proc' = [proc EXCEPT ![p] =
               IF r.threw THEN Finish(me, "CacheError")
               ELSE IF CacheHit(r.val)
                    THEN AfterFindOne([me EXCEPT !.survey = r.val])
                    ELSE [me EXCEPT !.pc = "s_doc"]]
  /\ UNCHANGED <<config, surveyDoc, questionDocs, responseDocs, cache,
                 events, calls, acked, overlap, fnVars, edVars, auxVars>>

\* const doc = await docRef.get()
SurveyDocGet(p) ==
  /\ Ready
  /\ proc[p].pc = "s_doc"
  /\ \E fail \in Faults(TRUE) :
       LET r == StoreRead(SurveyView(surveyDoc), fail)
           me == Suffer(proc[p], fail, "store")
       IN /\ Charge(fail)
          /\ proc' = [proc EXCEPT ![p] =
               IF r.threw THEN Finish(me, "StoreError")
               ELSE [me EXCEPT !.survey = r.val, !.pc = "s_set"]]
  /\ UNCHANGED <<config, surveyDoc, questionDocs, responseDocs, cache,
                 events, calls, acked, overlap, fnVars, edVars, auxVars>>

\* await this.cacheService.set(cacheKey, survey, 120); return survey
SurveyCacheSet(p) ==
  /\ Ready
  /\ proc[p].pc = "s_set"
  /\ \E fail \in Faults(config.redis) :
       LET r == CacheSet(config.redis, cache.survey, proc[p].survey[1], fail)
           me == Suffer(proc[p], fail, "cache")
       IN /\ Charge(fail)
          /\ cache' = [cache EXCEPT !.survey = r.entry]
          /\ proc' = [proc EXCEPT ![p] =
               IF r.threw THEN Finish(me, "CacheError") ELSE AfterFindOne(me)]
  /\ UNCHANGED <<config, surveyDoc, questionDocs, responseDocs,
                 events, calls, acked, overlap, fnVars, edVars, auxVars>>

(***************************************************************************)
(* QuestionsService.findBySurvey, called by validateResponse and, inside   *)
(* Promise.all, by getResults.                                             *)
(***************************************************************************)
\* const cached = await this.cacheService.get(`questions:${surveyId}`)
QuestionsCacheGet(p) ==
  /\ Ready
  /\ proc[p].qpc = "q_get"
  /\ \E fail \in Faults(config.redis) :
       LET r == CacheGet(config.redis, cache.questions, fail)
           me == [Suffer(proc[p], fail, "cache") EXCEPT
                    !.eff = @ \cup {"findBySurvey"}]
       IN /\ Charge(fail)
          /\ proc' = [proc EXCEPT ![p] =
               IF r.threw
               THEN FetchFailed([me EXCEPT !.qpc = "done"], "CacheError")
               ELSE IF CacheHit(r.val)
                    THEN Join([me EXCEPT !.questions = r.val, !.qpc = "done"])
                    ELSE [me EXCEPT !.qpc = "q_doc"]]
  /\ UNCHANGED <<config, surveyDoc, questionDocs, responseDocs, cache,
                 events, calls, acked, overlap, fnVars, edVars, auxVars>>

\* const snapshot = await ...collection('questions').where(...).get()
QuestionsDocGet(p) ==
  /\ Ready
  /\ proc[p].qpc = "q_doc"
  /\ \E fail \in Faults(TRUE) :
       LET r == StoreQuery(questionDocs, fail)
           me == Suffer(proc[p], fail, "fetch")
       IN /\ Charge(fail)
          /\ proc' = [proc EXCEPT ![p] =
               IF r.threw
               THEN FetchFailed([me EXCEPT !.qpc = "done"], "StoreError")
               ELSE [me EXCEPT !.questions = r.val, !.qpc = "q_set"]]
  /\ UNCHANGED <<config, surveyDoc, questionDocs, responseDocs, cache,
                 events, calls, acked, overlap, fnVars, edVars, auxVars>>

\* await this.cacheService.set(cacheKey, questions, 300); return questions
QuestionsCacheSet(p) ==
  /\ Ready
  /\ proc[p].qpc = "q_set"
  /\ \E fail \in Faults(config.redis) :
       LET r == CacheSet(config.redis, cache.questions,
                         proc[p].questions[1], fail)
           me == Suffer(proc[p], fail, "cache")
       IN /\ Charge(fail)
          /\ cache' = [cache EXCEPT !.questions = r.entry]
          /\ proc' = [proc EXCEPT ![p] =
               IF r.threw
               THEN FetchFailed([me EXCEPT !.qpc = "done"], "CacheError")
               ELSE Join([me EXCEPT !.qpc = "done"])]
  /\ UNCHANGED <<config, surveyDoc, questionDocs, responseDocs,
                 events, calls, acked, overlap, fnVars, edVars, auxVars>>

\* AnalyticsService.getResponses: the query on the responses collection
ResponsesGet(p) ==
  /\ Ready
  /\ proc[p].pc = "fetch"
  /\ proc[p].rpc = "r_doc"
  /\ \E fail \in Faults(TRUE) :
       LET r == StoreQuery(responseDocs, fail)
           me == [Suffer(proc[p], fail, "fetch") EXCEPT
                    !.eff = @ \cup {"getResponses"}]
       IN /\ Charge(fail)
          /\ proc' = [proc EXCEPT ![p] =
               IF r.threw
               THEN FetchFailed([me EXCEPT !.rpc = "done"], "StoreError")
               ELSE Join([me EXCEPT !.responses = r.val, !.rpc = "done"])]
  /\ UNCHANGED <<config, surveyDoc, questionDocs, responseDocs, cache,
                 events, calls, acked, overlap, fnVars, edVars, auxVars>>

(***************************************************************************)
(* ResponsesService.create after validateResponse accepted.                *)
(***************************************************************************)
\* const docRef = await ...collection('responses').add(response)
AddResponse(p) ==
  /\ Ready
  /\ proc[p].pc = "add"
  /\ \E fail \in Faults(TRUE) :
       LET me == Suffer(proc[p], fail, "store")
           id == Len(responseDocs) + 1
       IN /\ Charge(fail)
          /\ responseDocs' =
               IF fail THEN responseDocs
               ELSE Append(responseDocs,
                           [id |-> id, answers |-> proc[p].answers])
          /\ proc' = [proc EXCEPT ![p] =
               IF fail THEN Finish(me, "StoreError")
               ELSE [me EXCEPT !.pc = "incr", !.result.id = id,
                               !.eff = @ \cup {"add"}]]
  /\ UNCHANGED <<config, surveyDoc, questionDocs, cache,
                 events, calls, acked, overlap, fnVars, edVars, auxVars>>

\* an increment that is lost when the counter is not 0
incrementFromZero(n) == IF n = 0 THEN 1 ELSE n

\* FieldValue.increment(1), applied by the store to the field's value
increment(n) == n + 1

\* incrementResponseCount: docRef.update({responseCount: increment(1)})
IncrementResponseCount(p) ==
  /\ Ready
  /\ proc[p].pc = "incr"
  /\ \E fail \in Faults(TRUE) :
       LET me == Suffer(proc[p], fail, "store")
       IN /\ Charge(fail)
          /\ surveyDoc' =
               IF fail THEN surveyDoc
               ELSE [surveyDoc EXCEPT !.responseCount = increment(@)]
          /\ proc' = [proc EXCEPT ![p] =
               IF fail THEN Finish(me, "StoreError")
               ELSE [me EXCEPT !.pc = "incr_del", !.eff = @ \cup {"incr"}]]
  /\ UNCHANGED <<config, questionDocs, responseDocs, cache,
                 events, calls, acked, overlap, fnVars, edVars, auxVars>>

\* one of the three cache deletions of create: pc, the key, the next pc
DeleteKey(p, pc, key, effect, next) ==
  /\ Ready
  /\ proc[p].pc = pc
  /\ \E fail \in Faults(config.redis) :
       LET r == CacheDel(config.redis, cache[key], fail)
           me == [Suffer(proc[p], fail, "cache") EXCEPT
                    !.eff = @ \cup effect]
       IN /\ Charge(fail)
          /\ cache' = [cache EXCEPT ![key] = r.entry]
          /\ proc' = [proc EXCEPT ![p] =
               IF r.threw THEN Finish(me, "CacheError")
               ELSE [me EXCEPT !.pc = next]]
  /\ UNCHANGED <<config, surveyDoc, questionDocs, responseDocs,
                 events, calls, acked, overlap, fnVars, edVars, auxVars>>

\* incrementResponseCount: await this.cacheService.del(`survey:${id}`)
DeleteSurveyKey(p) == DeleteKey(p, "incr_del", "survey", {}, "del_a")

\* await this.cacheService.del(`analytics:${surveyId}`)
DeleteAnalyticsKey(p) ==
  DeleteKey(p, "del_a", "analytics", {"delAnalytics"}, "del_r")

\* await this.cacheService.del(`responses:${surveyId}`)
DeleteResponsesKey(p) ==
  DeleteKey(p, "del_r", "responses", {"delResponses"}, "emit")

\* await this.realtimeService.emitNewResponse(...); return {id, message}
EmitNewResponse(p) ==
  /\ Ready
  /\ proc[p].pc = "emit"
  /\ \E fail \in Faults(config.pusher) :
       LET r == trigger(config.pusher, fail)
           me == Suffer(proc[p], fail, "notifier")
       IN /\ Charge(fail)
          /\ events' = IF r.sent THEN events + 1 ELSE events
          /\ acked' = IF r.threw THEN acked ELSE acked + 1
          /\ proc' = [proc EXCEPT ![p] =
               IF r.threw THEN Finish(me, "NotifierError")
               ELSE Finish([me EXCEPT !.eff =
                              IF r.sent THEN @ \cup {"emit"} ELSE @], "ok")]
  /\ UNCHANGED <<config, surveyDoc, questionDocs, responseDocs, cache,
                 calls, overlap, fnVars, edVars, auxVars>>

(***************************************************************************)
(* AnalyticsService.getResults after the ownership check.                  *)
(***************************************************************************)
\* const cached = await this.cacheService.get(`analytics:${surveyId}`)
AnalyticsCacheGet(p) ==
  /\ Ready
  /\ proc[p].pc = "a_get"
  /\ \E fail \in Faults(config.redis) :
       LET r == CacheGet(config.redis, cache.analytics, fail)
           me == [Suffer(proc[p], fail, "cache") EXCEPT
                    !.eff = @ \cup {"analyticsGet"}]
       IN /\ Charge(fail)
          /\ proc' = [proc EXCEPT ![p] =
               IF r.threw THEN Finish(me, "CacheError")
               ELSE IF CacheHit(r.val)
                    THEN AfterResults([me EXCEPT !.results = r.val])
                    ELSE [me EXCEPT !.pc = "fetch", !.qpc = "q_get",
                                    !.rpc = "r_doc"]]
  /\ UNCHANGED <<config, surveyDoc, questionDocs, responseDocs, cache,
                 events, calls, acked, overlap, fnVars, edVars, auxVars>>

\* await this.cacheService.set(cacheKey, results, 60); return results
AnalyticsCacheSet(p) ==
  /\ Ready
  /\ proc[p].pc = "a_set"
  /\ \E fail \in Faults(config.redis) :
       LET r == CacheSet(config.redis, cache.analytics,
                         JsonReport(proc[p].results[1]), fail)
           me == [Suffer(proc[p], fail, "cache") EXCEPT
                    !.eff = @ \cup {"analyticsSet"}]
       IN /\ Charge(fail)
          /\ cache' = [cache EXCEPT !.analytics = r.entry]
          /\ proc' = [proc EXCEPT ![p] =
               IF r.threw THEN Finish(me, "CacheError")
               ELSE AfterResults(me)]
  /\ UNCHANGED <<config, surveyDoc, questionDocs, responseDocs,
                 events, calls, acked, overlap, fnVars, edVars, auxVars>>

(***************************************************************************)
(* AnalyticsService.exportToCSV after its inner getResults returned.       *)
(***************************************************************************)
\* await this.storageService.uploadFile(filename, csv, 'text/csv')
UploadFile(p) ==
  /\ Ready
  /\ proc[p].pc = "upload"
  /\ \E fail \in Faults(TRUE) :
       LET me == Suffer(proc[p], fail, "storage")
       IN /\ Charge(fail)
          /\ proc' = [proc EXCEPT ![p] =
               IF fail THEN Finish(me, "StorageError")
               ELSE [me EXCEPT !.pc = "sign", !.eff = @ \cup {"upload"}]]
  /\ UNCHANGED <<config, surveyDoc, questionDocs, responseDocs, cache,
                 events, calls, acked, overlap, fnVars, edVars, auxVars>>

\* const url = await this.storageService.getSignedUrl(filename, 1)
GetSignedUrl(p) ==
  /\ Ready
  /\ proc[p].pc = "sign"
  /\ \E fail \in Faults(TRUE) :
       LET me == Suffer(proc[p], fail, "storage")
       IN /\ Charge(fail)
          /\ proc' = [proc EXCEPT ![p] =
               IF fail THEN Finish(me, "StorageError")
               ELSE [me EXCEPT !.pc = "email"]]
  /\ UNCHANGED <<config, surveyDoc, questionDocs, responseDocs, cache,
                 events, calls, acked, overlap, fnVars, edVars, auxVars>>

\* await this.emailService.sendResultsReport(...); return {url, filename}
SendEmail(p) ==
  /\ Ready
  /\ proc[p].pc = "email"
  /\ \E fail \in Faults(config.resend) :
       LET r == sendResultsReport(config.resend, fail)
           me == Suffer(proc[p], fail, "mailer")
       IN /\ Charge(fail)
          /\ proc' = [proc EXCEPT ![p] =
               IF r.threw THEN Finish(me, "MailerError")
               ELSE Finish([me EXCEPT !.eff =
                              IF r.sent THEN @ \cup {"email"} ELSE @], "ok")]
  /\ UNCHANGED <<config, surveyDoc, questionDocs, responseDocs, cache,
                 events, calls, acked, overlap, fnVars, edVars, auxVars>>

\* the TTL of a cache entry runs out
Expire(key) ==
  /\ Ready
  /\ cache[key] # <<>>
  /\ cache' = [cache EXCEPT ![key] = <<>>]
  /\ UNCHANGED <<config, surveyDoc, questionDocs, responseDocs, events,
                 proc, calls, faults, acked, overlap, fnVars, edVars, auxVars>>

\* the caller has its answer: the handler's record is cleared
Retire(p) ==
  /\ proc[p].pc = "done"
  /\ proc' = [proc EXCEPT ![p] = IdleProc]
  /\ UNCHANGED <<config, surveyDoc, questionDocs, responseDocs, cache,
                 events, calls, faults, acked, overlap, fnVars, edVars, auxVars>>

Next ==
  \/ \E p \in Respondents : StartCreate(p)
  \/ \E p \in Analysts : StartGetResults(p)
  \/ \E p \in Analysts : StartExport(p)
  \/ \E p \in Procs : SurveyCacheGet(p)
  \/ \E p \in Procs : SurveyDocGet(p)
  \/ \E p \in Procs : SurveyCacheSet(p)
  \/ \E p \in Procs : QuestionsCacheGet(p)
  \/ \E p \in Procs : QuestionsDocGet(p)
  \/ \E p \in Procs : QuestionsCacheSet(p)
  \/ \E p \in Procs : ResponsesGet(p)
  \/ \E p \in Procs : AddResponse(p)
  \/ \E p \in Procs : IncrementResponseCount(p)
  \/ \E p \in Procs : DeleteSurveyKey(p)
  \/ \E p \in Procs : DeleteAnalyticsKey(p)
  \/ \E p \in Procs : DeleteResponsesKey(p)
  \/ \E p \in Procs : EmitNewResponse(p)
  \/ \E p \in Procs : AnalyticsCacheGet(p)
  \/ \E p \in Procs : AnalyticsCacheSet(p)
  \/ \E p \in Procs : UploadFile(p)
  \/ \E p \in Procs : GetSignedUrl(p)
  \/ \E p \in Procs : SendEmail(p)
  \/ \E key \in {"survey", "questions", "analytics"} : Expire(key)
  \/ \E p \in Procs : Retire(p)

Spec == Init /\ [][Next]_vars

(***************************************************************************)
(* RaceSpec: ResponsesService.create called by two clients at once, and    *)
(* SurveysService.update(S, {isActive: false}) called by the second one.   *)
(***************************************************************************)
Editors == {"p2"}

RaceInit ==
  /\ SysInit
  /\ surveyDoc.isActive
  /\ ~surveyDoc.expired
  /\ FnIdle
  /\ EdIdle
  /\ AuxIdle

\* SurveysService.update(id, {isActive: false}, userId) is called
StartUpdate(p) ==
  /\ Ready
  /\ proc[p].pc = "idle"
  /\ calls < MaxCalls
  /\ calls' = calls + 1
  /\ \E user \in Users :
       proc' = [proc EXCEPT ![p] =
         [IdleProc EXCEPT !.op = "update", !.pc = "u_doc", !.user = user,
                          !.ackedAtStart = acked, !.closedAtStart = closed]]
  /\ overlap' = (overlap \/ \E q \in Procs \ {p} : InFlight(q))
  /\ UNCHANGED <<config, surveyDoc, questionDocs, responseDocs, cache,
                 events, faults, acked, fnVars, edVars, auxVars>>

\* const doc = await docRef.get(), and the check of survey.createdBy
UpdateDocGet(p) ==
  /\ Ready
  /\ proc[p].pc = "u_doc"
  /\ \E fail \in Faults(TRUE) :
       LET r == StoreRead(SurveyView(surveyDoc), fail)
           me == Suffer(proc[p], fail, "store")
       IN /\ Charge(fail)
          /\ proc' = [proc EXCEPT ![p] =
               IF r.threw THEN Finish(me, "StoreError")
               ELSE IF ~OwnsSurvey(r.val[1], me.user)
                    THEN Finish(me, "Forbidden")
                    ELSE [me EXCEPT !.pc = "u_upd"]]
  /\ UNCHANGED <<config, surveyDoc, questionDocs, responseDocs, cache,
                 events, calls, acked, overlap, fnVars, edVars, auxVars>>

\* await docRef.update({isActive: false, updatedAt})
UpdateDoc(p) ==
  /\ Ready
  /\ proc[p].pc = "u_upd"
  /\ \E fail \in Faults(TRUE) :
       LET me == Suffer(proc[p], fail, "store")
       IN /\ Charge(fail)
          /\ surveyDoc' =
               IF fail THEN surveyDoc
               ELSE [surveyDoc EXCEPT !.isActive = FALSE]
          /\ proc' = [proc EXCEPT ![p] =
               IF fail THEN Finish(me, "StoreError")
               ELSE [me EXCEPT !.pc = "u_del", !.eff = @ \cup {"update"}]]
  /\ UNCHANGED <<config, questionDocs, responseDocs, cache,
                 events, calls, acked, overlap, fnVars, edVars, auxVars>>

\* update: await this.cacheService.del(`survey:${id}`)
UpdateDeleteSurveyKey(p) == DeleteKey(p, "u_del", "survey", {}, "u_inv")

\* await this.cacheService.invalidate(`surveys:${userId}*`): the lists of
\* surveys are no entry of this model
InvalidateSurveyLists(p) ==
  /\ Ready
  /\ proc[p].pc = "u_inv"
  /\ \E fail \in Faults(config.redis) :
       /\ Charge(fail)
       /\ proc' = [proc EXCEPT ![p] =
            [Suffer(proc[p], fail, "cache") EXCEPT !.pc = "u_emit"]]
  /\ UNCHANGED <<config, surveyDoc, questionDocs, responseDocs, cache,
                 events, calls, acked, overlap, fnVars, edVars, auxVars>>

\* await this.realtimeService.emitSurveyUpdate(...); return the survey
EmitSurveyUpdate(p) ==
  /\ Ready
  /\ proc[p].pc = "u_emit"
  /\ \E fail \in Faults(config.pusher) :
       LET r == trigger(config.pusher, fail)
           me == Suffer(proc[p], fail, "notifier")
       IN /\ Charge(fail)
          /\ events' = IF r.sent THEN events + 1 ELSE events
          /\ closed' = (closed \/ ~r.threw)
          /\ proc' = [proc EXCEPT ![p] =
               IF r.threw THEN Finish(me, "NotifierError")
               ELSE Finish(me, "ok")]
  /\ UNCHANGED <<config, surveyDoc, questionDocs, responseDocs, cache,
                 calls, acked, overlap, fnVars, edVars, limiter>>

RaceNext ==
  \/ \E p \in Procs : StartCreate(p)
  \/ \E p \in Editors : StartUpdate(p)
  \/ \E p \in Procs : SurveyCacheGet(p)
  \/ \E p \in Procs : SurveyDocGet(p)
  \/ \E p \in Procs : SurveyCacheSet(p)
  \/ \E p \in Procs : QuestionsCacheGet(p)
  \/ \E p \in Procs : QuestionsDocGet(p)
  \/ \E p \in Procs : QuestionsCacheSet(p)
  \/ \E p \in Procs : AddResponse(p)
  \/ \E p \in Procs : IncrementResponseCount(p)
  \/ \E p \in Procs : DeleteSurveyKey(p)
  \/ \E p \in Procs : DeleteAnalyticsKey(p)
  \/ \E p \in Procs : DeleteResponsesKey(p)
  \/ \E p \in Procs : EmitNewResponse(p)
  \/ \E p \in Procs : UpdateDocGet(p)
  \/ \E p \in Procs : UpdateDoc(p)
  \/ \E p \in Procs : UpdateDeleteSurveyKey(p)
  \/ \E p \in Procs : InvalidateSurveyLists(p)
  \/ \E p \in Procs : EmitSurveyUpdate(p)
  \/ \E key \in {"survey", "questions"} : Expire(key)
  \/ \E p \in Procs : Retire(p)

RaceSpec == RaceInit /\ [][RaceNext]_vars

(***************************************************************************)
(* FnSpec: validateResponse and calculateStats applied to bounded inputs.  *)
(***************************************************************************)
FnInit ==
  /\ config = [redis |-> TRUE, pusher |-> TRUE, resend |-> TRUE]
  /\ surveyDoc = [createdBy |-> Owner, isActive |-> TRUE, expired |-> FALSE,
                  responseCount |-> 0]
  /\ questionDocs = SurveyQuestions
  /\ responseDocs = <<>>
  /\ cache = [survey |-> <<>>, questions |-> <<>>, analytics |-> <<>>,
              responses |-> <<>>]
  /\ events = 0
  /\ proc = [p \in Procs |-> IdleProc]
  /\ calls = 0
  /\ faults = 0
  /\ acked = 0
  /\ overlap = FALSE
  /\ fnOut = <<>>
  /\ EdIdle
  /\ AuxIdle
  /\ \/ /\ fnQuestions \in QuestionLists
        /\ fnAnswers \in AnswerObjects(MaxEntries, ValidatorValues)
        /\ fnResponses = <<>>
     \/ /\ fnQuestions \in QuestionLists
        /\ fnAnswers = <<>>
        /\ fnResponses \in ResponseLists(MaxFnResponses)

\* await this.validateResponse(createResponseDto), on the questions fetched
FnValidate ==
  /\ fnOut = <<>>
  /\ fnOut' = <<[fn |-> "validateResponse",
                 out |-> validateResponse(fnQuestions, fnAnswers)]>>
  /\ UNCHANGED <<sysVars, edVars, auxVars, fnQuestions, fnAnswers, fnResponses>>

\* this.calculateStats(questions, responses)
FnCalculate ==
  /\ fnOut = <<>>
  /\ fnOut' = <<[fn |-> "calculateStats",
                 out |-> calculateStats(fnQuestions, fnResponses)]>>
  /\ UNCHANGED <<sysVars, edVars, auxVars, fnQuestions, fnAnswers, fnResponses>>

\* const csv = this.convertToCSV(results), on the report of getResults
FnConvert ==
  /\ fnOut = <<>>
  /\ ~IsThrew(calculateStats(fnQuestions, fnResponses))
  /\ fnOut' = <<[fn |-> "convertToCSV",
                 out |-> convertToCSV(calculateStats(fnQuestions,
                                                     fnResponses))]>>
  /\ UNCHANGED <<sysVars, edVars, auxVars, fnQuestions, fnAnswers, fnResponses>>

FnNext == FnValidate \/ FnCalculate \/ FnConvert

FnSpec == FnInit /\ [][FnNext]_vars

(***************************************************************************)
(* StoreSpec: the handlers that edit the store (QuestionsService,          *)
(* SurveysService, ResponsesService.create) and getResults, each run from  *)
(* its call to its return before the next one is called.  The only         *)
(* collaborator call that may fail is the del of questions:S that ends a   *)
(* question handler.                                                       *)
(***************************************************************************)
\* most handler calls in one behaviour of StoreSpec
MaxEdits == 3

\* most question documents ever added
MaxQuestions == 2

\* QuestionsService.validateQuestion: "ok" or the rejection it throws
validateQuestion(question) ==
  CASE question.type = "multiple_choice" ->
         IF question.options = <<>> \/ Len(question.options[1]) < 2
         THEN "OptionsRequired"
         ELSE "ok"
    [] question.type = "scale" ->
         IF \/ ~Truthy(ValidationMin(question))
            \/ ~Truthy(ValidationMax(question))
         THEN "BoundsRequired"
         ELSE IF NumLe(ValidationMax(question), ValidationMin(question))
              THEN "MinNotLess"
              ELSE "ok"
    [] OTHER -> "ok"

\* the id Firestore gives the n-th document added
DocId(n) ==
  CASE n = 1 -> "q1" [] n = 2 -> "q2" [] n = 3 -> "q3" [] OTHER -> "q4"

\* the bodies sent to QuestionsService.create (CreateQuestionDto)
CreateDtos ==
  {Question("new", "multiple_choice", opts, FALSE, NoValidation) :
     opts \in {<<>>, <<<<"A">>>>, <<<<"A", "B">>>>}}
  \cup {Question("new", "multiple_selection", opts, FALSE, NoValidation) :
     opts \in {<<>>, <<<<"A", "B">>>>}}
  \cup {Question("new", "scale", <<>>, FALSE, v) :
     v \in {NoValidation, Bounds(Num(1), Undef), Bounds(Num(1), Num(3)),
            Bounds(Num(0), Num(3)), Bounds(Num(3), Num(1))}}
  \cup {Question("new", "text", <<>>, TRUE, NoValidation)}

\* the bodies sent to QuestionsService.update (UpdateQuestionDto): every
\* field is optional, type "none" standing for a body without type
UpdateDtos ==
  {[type |-> t, options |-> <<>>, validation |-> <<>>] :
     t \in {"multiple_choice", "scale", "text"}}
  \cup {[type |-> "none", options |-> <<opts>>, validation |-> <<>>] :
     opts \in {<<>>, <<"A">>, <<"A", "C">>}}
  \cup {[type |-> "none", options |-> <<>>, validation |-> v] :
     v \in {Bounds(Num(3), Num(1)), Bounds(Num(1), Num(3))}}

\* the answers objects sent to ResponsesService.create
StoreAnswers ==
  {<<>>, <<[q |-> "q1", v |-> Str("A")]>>, <<[q |-> "q1", v |-> Num(2)]>>}

\* { ...question, ...updateQuestionDto }
Merge(question, dto) ==
  [question EXCEPT
     !.type = IF dto.type = "none" THEN @ ELSE dto.type,
     !.options = IF dto.options = <<>> THEN @ ELSE dto.options,
     !.validation = IF dto.validation = <<>> THEN @ ELSE dto.validation]

\* updateQuestionDto.type || updateQuestionDto.options
UpdateIsValidated(dto) == dto.type # "none" \/ dto.options # <<>>

\* where the question document with this id is in the store, 0 if nowhere
DocIndex(id) ==
  IF \E i \in DOMAIN questionDocs : questionDocs[i].id = id
  THEN CHOOSE i \in DOMAIN questionDocs : questionDocs[i].id = id
  ELSE 0

\* the documents left when the one at index i is deleted
Without(docs, i) ==
  [j \in 1..(Len(docs) - 1) |-> IF j < i THEN docs[j] ELSE docs[j + 1]]

\* SurveysService.findOne run to its end on the cache entries c: whether
\* it returned, the survey it returned and the entries it leaves
findOne(c) ==
  IF CacheHit(CacheGet(config.redis, c.survey, FALSE).val)
  THEN [found |-> TRUE, survey |-> c.survey, cache |-> c]
  ELSE IF ~surveyDoc.exists
       THEN [found |-> FALSE, survey |-> <<>>, cache |-> c]
       ELSE [found |-> TRUE, survey |-> <<SurveyView(surveyDoc)>>,
             cache |-> [c EXCEPT !.survey =
                CacheSet(config.redis, @, SurveyView(surveyDoc), FALSE).entry]]

\* QuestionsService.findBySurvey run to its end on the cache entries c
findBySurvey(c) ==
  IF CacheHit(CacheGet(config.redis, c.questions, FALSE).val)
  THEN [questions |-> c.questions[1], cache |-> c]
  ELSE [questions |-> questionDocs,
        cache |-> [c EXCEPT !.questions =
           CacheSet(config.redis, @, questionDocs, FALSE).entry]]

\* the entries c after cacheService.del of the given keys
Deleted(c, keys, fail) ==
  [key \in DOMAIN c |->
     IF key \in keys THEN CacheDel(config.redis, c[key], fail).entry
     ELSE c[key]]

\* question handlers that delete the cached report as well
QuestionsAndAnalyticsKeys(surveyId) == {"questions", "analytics"}

\* the keys the question handlers delete: `questions:${surveyId}`
QuestionsKeys(surveyId) == {"questions"}

\* the record of a handler call: its name, caller, body and outcome, and
\* the question documents before it
Called(op, user, dto, result) ==
  <<[op |-> op, user |-> user, dto |-> dto, result |-> result,
     before |-> questionDocs]>>

\* the survey's responses after SurveysService.remove with responses
\* deleted along with their survey
ResponsesCascaded(responses) == <<>>

\* the survey's responses after SurveysService.remove: docRef.delete()
\* deletes the survey document only
ResponsesOfRemoved(responses) == responses

StoreInit ==
  /\ config \in Configs
  /\ surveyDoc = [createdBy |-> Owner, isActive |-> TRUE, expired |-> FALSE,
                  responseCount |-> 0, exists |-> TRUE]
  /\ questionDocs = <<>>
  /\ responseDocs = <<>>
  /\ cache = [survey |-> <<>>, questions |-> <<>>, analytics |-> <<>>,
              responses |-> <<>>]
  /\ events = 0
  /\ proc = [p \in Procs |-> IdleProc]
  /\ calls = 0
  /\ faults = 0
  /\ acked = 0
  /\ overlap = FALSE
  /\ FnIdle
  /\ EdIdle
  /\ AuxIdle

\* QuestionsService.create(createQuestionDto, userId)
QuestionsCreate(user, dto) ==
  /\ calls < MaxEdits
  /\ created < MaxQuestions
  /\ LET fo == findOne(cache)
         id == DocId(created + 1)
         result ==
           IF ~fo.found THEN "NotFound"
           ELSE IF ~OwnsSurvey(fo.survey[1], user) THEN "Forbidden"
           ELSE IF validateQuestion(dto) # "ok" THEN "BadRequest"
           ELSE "ok"
     IN /\ questionDocs' =
             IF result = "ok"
             THEN Append(questionDocs, [dto EXCEPT !.id = id, !.text = id])
             ELSE questionDocs
        /\ created' = IF result = "ok" THEN created + 1 ELSE created
        /\ \E fail \in IF result = "ok" THEN Faults(config.redis)
                         ELSE {FALSE} :
             /\ Charge(fail)
             /\ cache' = IF result = "ok"
                         THEN Deleted(fo.cache, QuestionsKeys("S"), fail)
                         ELSE fo.cache
        /\ lastCall' = Called("QuestionsService.create", user, dto, result)
  /\ calls' = calls + 1
  /\ UNCHANGED <<config, surveyDoc, responseDocs, events, proc,
                 acked, overlap, fnVars, auxVars>>

\* QuestionsService.update(id, updateQuestionDto, userId)
QuestionsUpdate(user, id, dto) ==
  /\ calls < MaxEdits
  /\ LET i == DocIndex(id)
         fo == findOne(cache)
         result ==
           IF i = 0 THEN "NotFound"
           ELSE IF ~fo.found THEN "NotFound"
           ELSE IF ~OwnsSurvey(fo.survey[1], user) THEN "Forbidden"
           ELSE IF /\ UpdateIsValidated(dto)
                   /\ validateQuestion(Merge(questionDocs[i], dto)) # "ok"
                THEN "BadRequest"
           ELSE "ok"
     IN /\ questionDocs' =
             IF result = "ok"
             THEN [questionDocs EXCEPT ![i] = Merge(@, dto)]
             ELSE questionDocs
        /\ \E fail \in IF result = "ok" THEN Faults(config.redis)
                         ELSE {FALSE} :
             /\ Charge(fail)
             /\ cache' = IF i = 0 THEN cache
                         ELSE IF result = "ok"
                              THEN Deleted(fo.cache, QuestionsKeys("S"), fail)
                              ELSE fo.cache
        /\ lastCall' = Called("QuestionsService.update", user, dto, result)
  /\ calls' = calls + 1
  /\ UNCHANGED <<config, surveyDoc, responseDocs, events, proc,
                 acked, overlap, created, fnVars, auxVars>>

\* QuestionsService.remove(id, userId)
QuestionsRemove(user, id) ==
  /\ calls < MaxEdits
  /\ LET i == DocIndex(id)
         fo == findOne(cache)
         result ==
           IF i = 0 THEN "NotFound"
           ELSE IF ~fo.found THEN "NotFound"
           ELSE IF ~OwnsSurvey(fo.survey[1], user) THEN "Forbidden"
           ELSE "ok"
     IN /\ questionDocs' =
             IF result = "ok" THEN Without(questionDocs, i) ELSE questionDocs
        /\ \E fail \in IF result = "ok" THEN Faults(config.redis)
                         ELSE {FALSE} :
             /\ Charge(fail)
             /\ cache' = IF i = 0 THEN cache
                         ELSE IF result = "ok"
                              THEN Deleted(fo.cache, QuestionsKeys("S"), fail)
                              ELSE fo.cache
        /\ lastCall' = Called("QuestionsService.remove", user, <<>>, result)
  /\ calls' = calls + 1
  /\ UNCHANGED <<config, surveyDoc, responseDocs, events, proc,
                 acked, overlap, created, fnVars, auxVars>>

\* SurveysService.update(id, { isActive }, userId)
SurveysUpdate(user, isActive) ==
  /\ calls < MaxEdits
  /\ LET result ==
           IF ~surveyDoc.exists THEN "NotFound"
           ELSE IF surveyDoc.createdBy # user THEN "Forbidden"
           ELSE "ok"
     IN /\ surveyDoc' =
             IF result = "ok" THEN [surveyDoc EXCEPT !.isActive = isActive]
             ELSE surveyDoc
        /\ cache' = IF result = "ok" THEN Deleted(cache, {"survey"}, FALSE)
                    ELSE cache
        /\ lastCall' = Called("SurveysService.update", user, <<>>, result)
  /\ calls' = calls + 1
  /\ UNCHANGED <<config, questionDocs, responseDocs, events, proc, faults,
                 acked, overlap, created, fnVars, auxVars>>

\* SurveysService.remove(id, userId)
SurveysRemove(user) ==
  /\ calls < MaxEdits
  /\ LET result ==
           IF ~surveyDoc.exists THEN "NotFound"
           ELSE IF surveyDoc.createdBy # user THEN "Forbidden"
           ELSE "ok"
     IN /\ surveyDoc' =
             IF result = "ok" THEN [surveyDoc EXCEPT !.exists = FALSE]
             ELSE surveyDoc
        /\ responseDocs' =
             IF result = "ok" THEN ResponsesOfRemoved(responseDocs)
             ELSE responseDocs
        /\ cache' = IF result = "ok" THEN Deleted(cache, {"survey"}, FALSE)
                    ELSE cache
        /\ lastCall' = Called("SurveysService.remove", user, <<>>, result)
  /\ calls' = calls + 1
  /\ UNCHANGED <<config, questionDocs, events, proc, faults,
                 acked, overlap, created, fnVars, auxVars>>

\* ResponsesService.create({ surveyId, answers })
ResponsesCreate(answers) ==
  /\ calls < MaxEdits
  /\ LET fo == findOne(cache)
         fq == findBySurvey(fo.cache)
         v == validateResponse(fq.questions, answers)
         result ==
           IF ~fo.found THEN "NotFound"
           ELSE IF getPublicSurvey(fo.survey[1]) # "ok" THEN "NotFound"
           ELSE IF v.ok THEN "ok"
           ELSE IF v.reason = "TypeError" THEN "TypeError"
           ELSE "BadRequest"
     IN /\ responseDocs' =
             IF result = "ok"
             THEN Append(responseDocs,
                         [id |-> Len(responseDocs) + 1, answers |-> answers])
             ELSE responseDocs
        /\ surveyDoc' =
             IF result = "ok"
             THEN [surveyDoc EXCEPT !.responseCount = @ + 1]
             ELSE surveyDoc
        /\ cache' =
             IF result = "ok"
             THEN Deleted(fq.cache, {"survey", "analytics", "responses"},
                          FALSE)
             ELSE IF result = "NotFound" THEN fo.cache
             ELSE fq.cache
        /\ events' = IF result = "ok" /\ trigger(config.pusher, FALSE).sent
                     THEN events + 1 ELSE events
        /\ acked' = IF result = "ok" THEN acked + 1 ELSE acked
        /\ lastCall' = Called("ResponsesService.create", "anonymous",
                              answers, result)
  /\ calls' = calls + 1
  /\ UNCHANGED <<config, questionDocs, proc, faults, overlap, created,
                 fnVars, auxVars>>

\* AnalyticsService.getResults(surveyId, userId); the report returned is
\* recorded as the body of the call
StoreGetResults(user) ==
  /\ calls < MaxEdits
  /\ LET fo == findOne(cache)
         cached == CacheGet(config.redis, fo.cache.analytics, FALSE).val
         fq == findBySurvey(fo.cache)
         results == calculateStats(fq.questions, responseDocs)
         result ==
           IF ~fo.found THEN "NotFound"
           ELSE IF ~OwnsSurvey(fo.survey[1], user) THEN "Forbidden"
           ELSE IF CacheHit(cached) THEN "ok"
           ELSE IF IsThrew(results) THEN "TypeError"
           ELSE "ok"
     IN /\ cache' =
             IF result \in {"NotFound", "Forbidden"} \/ CacheHit(cached)
             THEN fo.cache
             ELSE IF result = "TypeError" THEN fq.cache
             ELSE [fq.cache EXCEPT !.analytics =
                     CacheSet(config.redis, @, JsonReport(results),
                              FALSE).entry]
        /\ lastCall' =
             Called("AnalyticsService.getResults", user,
                    IF result # "ok" THEN <<>>
                    ELSE IF CacheHit(cached) THEN cached
                    ELSE <<results>>,
                    result)
  /\ calls' = calls + 1
  /\ UNCHANGED <<config, surveyDoc, questionDocs, responseDocs, events,
                 proc, faults, acked, overlap, created, fnVars, auxVars>>

StoreNext ==
  \/ \E user \in Users, dto \in CreateDtos : QuestionsCreate(user, dto)
  \/ \E user \in Users, n \in 1..MaxQuestions, dto \in UpdateDtos :
       QuestionsUpdate(user, DocId(n), dto)
  \/ \E user \in Users, n \in 1..MaxQuestions : QuestionsRemove(user, DocId(n))
  \/ \E user \in Users, isActive \in BOOLEAN : SurveysUpdate(user, isActive)
  \/ \E user \in Users : SurveysRemove(user)
  \/ \E answers \in StoreAnswers : ResponsesCreate(answers)
  \/ \E user \in Users : StoreGetResults(user)
  \/ \E key \in {"survey", "questions", "analytics"} : Expire(key)

StoreSpec == StoreInit /\ [][StoreNext]_vars

(***************************************************************************)
(* RateSpec: CacheService.checkRateLimit called by concurrent requests of  *)
(* one identifier.  The ratelimit key is count (0: no key) and ttl, the    *)
(* seconds left before it expires (0: no expiry set).                      *)
(***************************************************************************)
\* most calls of checkRateLimit in one behaviour
MaxRateCalls == 4

\* windowSeconds
WindowSeconds == 2

\* the limits the callers pass as maxRequests
RateLimits == {1, 2}

\* a limiter that lets one request more through
RateAllowedOneMore(current, maxRequests) == current <= maxRequests + 1

\* return current <= maxRequests
RateAllowed(current, maxRequests) == current <= maxRequests

\* if (current === 1)
SetsExpiry(current) == current = 1

\* await this.redis.incr(key), or 0 when the call fails
CacheIncr(count, fail) ==
  IF fail THEN [count |-> count, returned |-> 0]
  ELSE [count |-> count + 1, returned |-> count + 1]

\* await this.redis.expire(key, seconds): a failure is logged only, a key
\* that does not exist gets no expiry
CacheExpire(count, ttl, seconds, fail) ==
  IF fail \/ count = 0 THEN ttl ELSE seconds

RateCaller == [pc |-> "idle", current |-> 0]

RateInit ==
  /\ SysInit
  /\ surveyDoc.isActive
  /\ ~surveyDoc.expired
  /\ FnIdle
  /\ EdIdle
  /\ closed = FALSE
  /\ \E maxRequests \in RateLimits :
       limiter = [count |-> 0, ttl |-> 0, maxRequests |-> maxRequests,
                  granted |-> 0, lapsed |-> 0, calls |-> 0,
                  faulted |-> FALSE,
                  caller |-> [p \in Procs |-> RateCaller]]

\* checkRateLimit is called; without Redis it returns true at once
RateStart(p) ==
  /\ limiter.caller[p].pc = "idle"
  /\ limiter.calls < MaxRateCalls
  /\ limiter' = [limiter EXCEPT
       !.calls = @ + 1,
       !.caller[p].pc = IF config.redis THEN "incr" ELSE "idle"]
  /\ UNCHANGED <<sysVars, fnVars, edVars, closed>>

\* const current = await this.incr(key); without an await in between,
\* return current <= maxRequests when current is not 1
RateIncr(p) ==
  /\ limiter.caller[p].pc = "incr"
  /\ \E fail \in Faults(TRUE) :
       LET r == CacheIncr(limiter.count, fail)
           allowed == RateAllowed(r.returned, limiter.maxRequests)
       IN /\ Charge(fail)
          /\ limiter' = [limiter EXCEPT
               !.count = r.count,
               !.faulted = @ \/ fail,
               !.granted = IF allowed THEN @ + 1 ELSE @,
               !.caller[p] =
                 IF SetsExpiry(r.returned)
                 THEN [pc |-> "expire", current |-> r.returned]
                 ELSE RateCaller]
  /\ UNCHANGED <<config, surveyDoc, questionDocs, responseDocs, cache,
                 events, proc, calls, acked, overlap, fnVars, edVars,
                 closed>>

\* await this.expire(key, windowSeconds); return current <= maxRequests
RateExpire(p) ==
  /\ limiter.caller[p].pc = "expire"
  /\ \E fail \in Faults(TRUE) :
       /\ Charge(fail)
       /\ limiter' = [limiter EXCEPT
            !.ttl = CacheExpire(limiter.count, @, WindowSeconds, fail),
            !.faulted = @ \/ fail,
            !.caller[p] = RateCaller]
  /\ UNCHANGED <<config, surveyDoc, questionDocs, responseDocs, cache,
                 events, proc, calls, acked, overlap, fnVars, edVars,
                 closed>>

\* a second passes: a key whose expiry is set loses a second, and is
\* deleted with its last one
RateTick ==
  /\ limiter.ttl > 0
  /\ limiter' =
       IF limiter.ttl = 1
       THEN [limiter EXCEPT !.ttl = 0, !.count = 0, !.granted = 0,
                            !.lapsed = 1]
       ELSE [limiter EXCEPT !.ttl = @ - 1]
  /\ UNCHANGED <<sysVars, fnVars, edVars, closed>>

RateNext ==
  \/ \E p \in Procs : RateStart(p)
  \/ \E p \in Procs : RateIncr(p)
  \/ \E p \in Procs : RateExpire(p)
  \/ RateTick

RateSpec == RateInit /\ [][RateNext]_vars

(***************************************************************************)
(* Properties of the pure functions, checked under FnSpec.                 *)
(***************************************************************************)
Validated == fnOut # <<>> /\ fnOut[1].fn = "validateResponse"

Calculated == fnOut # <<>> /\ fnOut[1].fn = "calculateStats"

\* the question the calculators were applied to, its answers and its data
FnQuestion == fnQuestions[1]

FnGiven == AnswersFor(FnQuestion, fnResponses)

FnData == fnOut[1].out.questions[FnQuestion.id].data

\* a value that is present and not the empty string
NonEmpty(v) == v.k \notin {"undef", "null"} /\ v # Str("")

\* C2: every answer set validateResponse accepts has a non-empty value for
\* every required question and, for every answered multiple_choice
\* question, a value that is one of the question's options.
C2_AcceptedIsComplete ==
  (Validated /\ fnOut[1].out.ok) =>
    \A i \in DOMAIN fnQuestions :
      LET question == fnQuestions[i]
          answer == Lookup(fnAnswers, question.id)
      IN /\ question.required => NonEmpty(answer)
         /\ (question.type = "multiple_choice" /\ answer.k # "undef") =>
              \E j \in DOMAIN question.options[1] :
                answer = Str(question.options[1][j])

\* an accepted answer set with a required question and an answered choice
C2_Witness ==
  /\ Validated
  /\ fnOut[1].out.ok
  /\ \E i \in DOMAIN fnQuestions : fnQuestions[i].required
  /\ \E i \in DOMAIN fnQuestions :
       /\ fnQuestions[i].type = "multiple_choice"
       /\ Lookup(fnAnswers, fnQuestions[i].id).k # "undef"

\* the answers that are declared options of the question, by strict equality
DeclaredAnswers ==
  {i \in DOMAIN FnGiven : OptionsInclude(FnQuestion.options[1], FnGiven[i])}

ChoiceCalculated == Calculated /\ FnQuestion.type = "multiple_choice"

\* C8: for every multiple_choice question and every collection of
\* responses, counts has exactly the declared options as keys, total is
\* the sum of the counts, and only answers that are declared options
\* contribute to counts and total.
C8_OnlyDeclaredOptionsCount ==
  ChoiceCalculated =>
    /\ ~IsThrew(fnOut[1].out)
    /\ DOMAIN FnData.counts = SeqRange(FnQuestion.options[1])
    /\ FnData.total = SumOver(FnData.counts, DOMAIN FnData.counts)
    /\ FnData.total = Cardinality(DeclaredAnswers)

\* the answers to the question that Number() turns into a number
NumericAnswers ==
  {i \in DOMAIN FnGiven :
     CollectsAnswer(FnGiven[i]) /\ ~IsNaN(ToNumber(FnGiven[i]))}

ScaleCalculated == Calculated /\ FnQuestion.type = "scale"

\* the whole numbers from validation.min to validation.max, in thousandths
DeclaredScale ==
  {1000 * i : i \in (ValidationMin(FnQuestion).n \div 1000) ..
                    (ValidationMax(FnQuestion).n \div 1000)}

\* C9: with at least one numeric answer, calculateScale returns
\* min <= average <= max and a distribution whose keys are exactly the
\* integers from validation.min to validation.max.
C9_ScaleOrdered ==
  (ScaleCalculated /\ NumericAnswers # {}) =>
    /\ NumLe(ToNumber(FnData.min), ToNumber(FnData.average))
    /\ NumLe(ToNumber(FnData.average), ToNumber(FnData.max))
    /\ DOMAIN FnData.distribution = DeclaredScale

\* C10: with zero numeric answers, calculateScale returns exactly
\* {average: 0, min: 0, max: 0, count: 0} with no distribution key.
C10_ScaleEmpty ==
  (ScaleCalculated /\ NumericAnswers = {}) =>
    /\ DOMAIN FnData = {"average", "min", "max", "count"}
    /\ FnData.average = Num(0)
    /\ FnData.min = Num(0)
    /\ FnData.max = Num(0)
    /\ FnData.count = 0

\* C11: calculateStats never throws: for every list of questions that
\* passed the schema-level checks and every collection of stored responses
\* it returns a report with a record for every question.
C11_CalculateStatsIsTotal ==
  Calculated =>
    /\ ~IsThrew(fnOut[1].out)
    /\ DOMAIN fnOut[1].out.questions =
         {fnQuestions[i].id : i \in DOMAIN fnQuestions}

\* C12: in every report calculateStats computes for getResults, the
\* top-level totalResponses and the totalResponses of every per-question
\* record equal the number of responses fetched, however many of them
\* answered the question.
C12_TotalResponsesIsFetchedCount ==
  (Calculated /\ ~IsThrew(fnOut[1].out)) =>
    /\ fnOut[1].out.totalResponses = Len(fnResponses)
    /\ \A id \in DOMAIN fnOut[1].out.questions :
         fnOut[1].out.questions[id].totalResponses = Len(fnResponses)

\* a report on two questions and two responses, one of which answers the
\* first question and none of which answers the second
C12_Witness ==
  /\ Calculated
  /\ ~IsThrew(fnOut[1].out)
  /\ Len(fnQuestions) = 2
  /\ Len(fnResponses) = 2
  /\ fnResponses[1].answers # <<>>
  /\ fnResponses[2].answers = <<>>
  /\ fnOut[1].out.questions["q2"].totalResponses = 2

\* whether the answers break a rule of this question: it is required and
\* has no answer, or its answer fails the check of its type
QuestionViolated(question, answers) ==
  LET answer == Lookup(answers, question.id)
  IN \/ question.required /\ ~Truthy(answer)
     \/ answer.k # "undef" /\ CheckAnswerType(question, answer) # "none"

\* the submitted keys all name questions of the list
KnownKeys ==
  \A i \in DOMAIN fnAnswers : QuestionMapGet(fnQuestions, fnAnswers[i].q) # <<>>

\* C13: when an answer set breaks several rules, validateResponse reports
\* the violation of the first violated question in the order of the
\* question list, whatever the key order of the submitted answers.
C13_FirstViolationInSchemaOrder ==
  (Validated /\ ~fnOut[1].out.ok /\ KnownKeys) =>
    \E i \in DOMAIN fnQuestions :
      /\ QuestionViolated(fnQuestions[i], fnAnswers)
      /\ \A j \in 1..(i - 1) : ~QuestionViolated(fnQuestions[j], fnAnswers)
      /\ fnOut[1].out.q = fnQuestions[i].id

Converted == fnOut # <<>> /\ fnOut[1].fn = "convertToCSV"

\* C17: the text of the CSV export is one header row built from the
\* question labels followed by exactly one row per stored response, giving
\* the response's answers in the header's column order.
C17_CsvHasRowPerResponse ==
  Converted =>
    LET lines == fnOut[1].out
    IN /\ Len(lines) = 1 + Len(fnResponses)
       /\ lines[1] = <<"Response ID", "Submitted At">>
                     \o [j \in DOMAIN fnQuestions |-> fnQuestions[j].text]
       /\ \A i \in DOMAIN fnResponses :
            /\ Len(lines[i + 1]) = Len(lines[1])
            /\ \A j \in DOMAIN fnQuestions :
                 lines[i + 1][2 + j] =
                   Lookup(fnResponses[i].answers, fnQuestions[j].id)

\* a number, or a string that is the literal of a number
IsNumeric(v) ==
  \/ v.k = "num"
  \/ v.k = "str" /\ v.s # "" /\ StringToNumber(v.s).k = "num"

\* the value is numeric and lies within the bounds of the question
WithinBounds(question, v) ==
  /\ IsNumeric(v)
  /\ NumLe(ValidationMin(question), ToNumber(v))
  /\ NumLe(ToNumber(v), ValidationMax(question))

\* C21: for a scale question with bounds [min, max], validateResponse
\* rejects every submitted value that is not numeric or lies outside the
\* bounds, and accepts every numeric value within them.
C21_ScaleAnswerWithinBounds ==
  (Validated /\ Len(fnQuestions) = 1 /\ Len(fnAnswers) = 1
   /\ fnQuestions[1].type = "scale" /\ fnAnswers[1].q = fnQuestions[1].id) =>
    (fnOut[1].out.ok <=> WithinBounds(fnQuestions[1], fnAnswers[1].v))

\* the answers name a question that is not in the list
UnknownKey ==
  \E i \in DOMAIN fnAnswers :
    fnAnswers[i].q \notin {fnQuestions[j].id : j \in DOMAIN fnQuestions}

\* C22: validateResponse rejects every answer set that contains a question
\* id which is not the id of a question of the survey, even when all the
\* other answers are valid.
C22_UnknownQuestionRejected ==
  (Validated /\ UnknownKey) => ~fnOut[1].out.ok

\* an answer set with a valid answer and an unknown question id has been
\* rejected for the unknown id
C22_Witness ==
  /\ Validated
  /\ UnknownKey
  /\ Len(fnAnswers) = 2
  /\ fnOut[1].out.reason = "QuestionNotFound"
  /\ \E i \in DOMAIN fnQuestions :
       /\ Lookup(fnAnswers, fnQuestions[i].id).k # "undef"
       /\ ~QuestionViolated(fnQuestions[i], fnAnswers)

\* the collected answers whose value is a whole number within the bounds
IntegerAnswers ==
  {i \in DOMAIN FnGiven :
     /\ CollectsAnswer(FnGiven[i])
     /\ ToNumber(FnGiven[i]).k = "num"
     /\ ToNumber(FnGiven[i]).n % 1000 = 0
     /\ NumLe(ValidationMin(FnQuestion), ToNumber(FnGiven[i]))
     /\ NumLe(ToNumber(FnGiven[i]), ValidationMax(FnQuestion))}

\* C30: for every scale question and every collection of responses with at
\* least one answer, the distribution counts sum to at most count, and to
\* exactly count when every collected answer is an integer within
\* [validation.min, validation.max], and only then.
C30_DistributionSum ==
  (ScaleCalculated /\ \E i \in DOMAIN FnGiven : CollectsAnswer(FnGiven[i])) =>
    LET sum == SumOver(FnData.distribution, DOMAIN FnData.distribution)
    IN /\ sum <= FnData.count
       /\ sum = FnData.count <=>
            \A i \in DOMAIN FnGiven :
              CollectsAnswer(FnGiven[i]) => i \in IntegerAnswers

(***************************************************************************)
(* Properties of the services, checked under Spec.                         *)
(***************************************************************************)
Returned(p) == proc[p].pc = "done"

\* C1: a getResults by the owner that starts after a create has returned
\* successfully, with no request ever overlapping another, returns a report
\* whose totalResponses counts every response acknowledged before it began.
C1_ResultsReflectAcknowledged ==
  \A p \in Procs :
    (/\ Returned(p)
     /\ proc[p].op = "getResults"
     /\ proc[p].user = Owner
     /\ proc[p].result.kind = "ok"
     /\ ~overlap) =>
      proc[p].result.report[1].totalResponses >= proc[p].ackedAtStart

\* what create does to the response store, the response count, the
\* analytics:S and responses:S entries and the survey's channel
CreateEffects == {"add", "incr", "delAnalytics", "delResponses", "emit"}

\* C3: a create rejected by the survey gate or by validateResponse has
\* appended no response, incremented no count, deleted neither analytics:S
\* nor responses:S and emitted no event; a response is appended only by a
\* create whose survey was active and not expired.
C3_RejectedCreateHasNoEffect ==
  \A p \in Procs :
    proc[p].op = "create" =>
      /\ proc[p].result.kind \in {"NotFound", "BadRequest"} =>
           proc[p].eff \cap CreateEffects = {}
      /\ "add" \in proc[p].eff =>
           proc[p].survey[1].isActive /\ ~proc[p].survey[1].expired

\* a create rejected by validateResponse has returned
C3_Witness ==
  \E p \in Procs :
    /\ Returned(p)
    /\ proc[p].op = "create"
    /\ proc[p].result.kind = "BadRequest"
    /\ "findBySurvey" \in proc[p].eff

\* C4: a create whose response was stored and whose notifier then failed
\* returns successfully with the id of the stored response.
C4_NotifierFailureIsNotFatal ==
  \A p \in Procs :
    (/\ Returned(p)
     /\ proc[p].op = "create"
     /\ "add" \in proc[p].eff
     /\ "notifier" \in proc[p].hit) =>
      proc[p].result.kind = "ok" /\ proc[p].result.id > 0

C6_CacheFailureIsNotFatal ==
  \A p \in Procs :
    /\ proc[p].result.kind # "CacheError"
    /\ (Returned(p) /\ proc[p].hit = {"cache"}) =>
         proc[p].result.kind \in {"ok", "NotFound", "BadRequest", "Forbidden"}
    /\ (Returned(p) /\ proc[p].hit = {"cache"} /\ proc[p].op = "getResults"
        /\ proc[p].user = Owner) =>
         proc[p].result.kind = "ok" /\ proc[p].result.report # <<>>

\* a getResults that suffered a cache failure has returned its report
C6_Witness ==
  \E p \in Procs :
    /\ Returned(p)
    /\ proc[p].op = "getResults"
    /\ "cache" \in proc[p].hit
    /\ proc[p].result.kind = "ok"

\* C7: a getResults (alone or inside exportToCSV) whose fetch of the
\* questions or of the responses failed fails with that error, returns no
\* report and has not written analytics:S.
C7_FetchFailurePropagates ==
  \A p \in Procs :
    (/\ proc[p].op \in {"getResults", "exportToCSV"}
     /\ "fetch" \in proc[p].hit) =>
      /\ proc[p].pc \in {"done", "bg"}
      /\ proc[p].result.kind = "StoreError"
      /\ proc[p].result.report = <<>>
      /\ "analyticsSet" \notin proc[p].eff
      /\ "upload" \notin proc[p].eff

\* a getResults whose fetch failed has returned
C7_Witness ==
  \E p \in Procs :
    /\ Returned(p)
    /\ proc[p].op = "getResults"
    /\ "fetch" \in proc[p].hit
    /\ "getResponses" \in proc[p].eff

(***************************************************************************)
(* Properties of the editing handlers, checked under StoreSpec.            *)
(***************************************************************************)
\* the last handler called was op and it got past the survey checks
LastWas(op) ==
  /\ lastCall # <<>>
  /\ lastCall[1].op = op
  /\ lastCall[1].result \notin {"NotFound", "Forbidden"}

\* both bounds are present and min < max
WellBounded(question) ==
  /\ ValidationMin(question).k = "num"
  /\ ValidationMax(question).k = "num"
  /\ ValidationMin(question).n < ValidationMax(question).n

\* options are present and has at least 2 entries
WellOptioned(question) ==
  question.options # <<>> /\ Len(question.options[1]) >= 2

\* C14: QuestionsService.create accepts a scale question exactly when
\* validation.min and validation.max are both present and min < max;
\* otherwise it rejects with BadRequest and stores no question.
C14_ScaleAcceptedIffWellBounded ==
  (LastWas("QuestionsService.create") /\ lastCall[1].dto.type = "scale") =>
    /\ lastCall[1].result = "ok" <=> WellBounded(lastCall[1].dto)
    /\ lastCall[1].result # "ok" =>
         lastCall[1].result = "BadRequest" /\ questionDocs = lastCall[1].before

\* C15: after any sequence of QuestionsService.create and update calls,
\* every stored scale question has both bounds with min < max and every
\* stored multiple_choice question has at least 2 options.
C15_StoredQuestionsAreValid ==
  \A i \in DOMAIN questionDocs :
    /\ questionDocs[i].type = "scale" => WellBounded(questionDocs[i])
    /\ questionDocs[i].type = "multiple_choice" =>
         WellOptioned(questionDocs[i])

\* C16: QuestionsService.create rejects every multiple_choice or
\* multiple_selection question whose options are absent or fewer than 2.
C16_ChoiceNeedsTwoOptions ==
  (/\ LastWas("QuestionsService.create")
   /\ lastCall[1].dto.type \in {"multiple_choice", "multiple_selection"}
   /\ ~WellOptioned(lastCall[1].dto)) =>
    lastCall[1].result = "BadRequest" /\ questionDocs = lastCall[1].before

\* C19: the response store is append-only: no step of any handler,
\* survey and question updates and removals included, deletes or changes
\* a stored response.
C19_ResponsesAreAppendOnly ==
  [][/\ Len(responseDocs') >= Len(responseDocs)
     /\ \A i \in DOMAIN responseDocs : responseDocs'[i] = responseDocs[i]]_vars

\* the survey has been removed and a response answering its question is
\* still stored
C19_Witness ==
  /\ ~surveyDoc.exists
  /\ lastCall # <<>>
  /\ lastCall[1].op = "SurveysService.remove"
  /\ \E i \in DOMAIN responseDocs : responseDocs[i].answers # <<>>

QuestionHandlers ==
  {"QuestionsService.create", "QuestionsService.update",
   "QuestionsService.remove"}

\* the last handler called was a question handler and it has succeeded
QuestionEdited ==
  /\ lastCall # <<>>
  /\ lastCall[1].op \in QuestionHandlers
  /\ lastCall[1].result = "ok"

\* C26: after QuestionsService.create, update or remove for a question of
\* the survey has returned, the next findBySurvey, with nothing else under
\* way, returns the question documents of the store and not a list cached
\* before the edit.
C26_EditedSchemaIsRead ==
  QuestionEdited => findBySurvey(cache).questions = questionDocs

C18_MailerFailureIsNotFatal ==
  \A p \in Procs :
    (/\ Returned(p)
     /\ proc[p].op = "exportToCSV"
     /\ "upload" \in proc[p].eff
     /\ "mailer" \in proc[p].hit) =>
      proc[p].result.kind = "ok"

\* the step by which handler p reads analytics:S
ReadsAnalytics(p) ==
  /\ proc[p].op = "getResults"
  /\ proc[p].pc = "a_get"
  /\ proc'[p] # proc[p]

\* handler p has returned the cached report and has done nothing else
ReturnsCached(p) ==
  /\ proc'[p].pc = "done"
  /\ proc'[p].result.kind = "ok"
  /\ proc'[p].result.report = cache.analytics
  /\ proc'[p].eff \cap {"findBySurvey", "getResponses", "analyticsSet"} = {}
  /\ cache' = cache

\* C20: when a report is cached under analytics:S, getResults by the owner
\* returns exactly the cached value and fetches no questions, fetches no
\* responses and writes nothing to the cache.
C20_CachedReportIsReturned ==
  [][\A p \in Procs :
       (ReadsAnalytics(p) /\ cache.analytics # <<>>) => ReturnsCached(p)]_vars

\* C20 as amended: the same when the read of analytics:S succeeds; a read
\* that fails is taken for a miss, and the report is computed anew.
C20_ReadReportIsReturned ==
  [][\A p \in Procs :
       (ReadsAnalytics(p) /\ cache.analytics # <<>>) =>
         IF faults' = faults THEN ReturnsCached(p)
         ELSE proc'[p].pc = "fetch" /\ proc'[p].result.report = <<>>]_vars

\* a getResults has returned the report that is cached, having done
\* nothing but read analytics:S
C20_Witness ==
  \E p \in Procs :
    /\ Returned(p)
    /\ proc[p].op = "getResults"
    /\ proc[p].result.kind = "ok"
    /\ proc[p].eff = {"analyticsGet"}
    /\ proc[p].result.report = cache.analytics

\* the step by which getResults of handler p, after a miss, writes its
\* report to the cache and returns it
ReturnsComputed(p) ==
  /\ proc[p].op = "getResults"
  /\ proc[p].pc = "a_set"
  /\ proc'[p].pc = "done"
  /\ proc'[p].result.kind = "ok"

\* the report returned by handler p is what analytics:S holds, and it was
\* made from a fetch of the questions and a fetch of the responses: it is
\* the report of the store as it is, unless requests have overlapped
StoredIsReturned(p) ==
  /\ cache'.analytics = proc'[p].result.report
  /\ proc'[p].result.report = <<calculateStats(questionDocs, responseDocs)>>
     \/ overlap'
  /\ {"findBySurvey", "getResponses", "analyticsSet"} \subseteq proc'[p].eff

ReturnedComputed(p) ==
  /\ Returned(p)
  /\ proc[p].op = "getResults"
  /\ proc[p].result.kind = "ok"
  /\ "getResponses" \in proc[p].eff

C25_ClosedSurveyTakesNoResponse ==
  \A p \in Procs :
    (Returned(p) /\ proc[p].op = "create" /\ proc[p].closedAtStart) =>
      /\ proc[p].hit = {} => proc[p].result.kind = "NotFound"
      /\ "add" \notin proc[p].eff

\* C27: in every state where no create is in progress and every create
\* that stored a response has returned successfully, the stored
\* responseCount of the survey is the number of responses stored for it.
C27_ResponseCountIsNumberStored ==
  ((\A p \in Procs : proc[p].op = "create" => ~InFlight(p))
   /\ acked = Len(responseDocs)) =>
     surveyDoc.responseCount = Len(responseDocs)

\* two creates that were in progress together have both returned
\* successfully, and the count is 2
C27_Witness ==
  /\ overlap
  /\ acked = 2
  /\ Len(responseDocs) = 2
  /\ surveyDoc.responseCount = 2
  /\ \A p \in Procs : ~InFlight(p)
  /\ \E p \in Procs : Returned(p) /\ proc[p].op = "create"
                      /\ proc[p].result.id = 1

(***************************************************************************)
(* Properties of the rate limiter, checked under RateSpec.                 *)
(***************************************************************************)
\* Redis is configured and no call to it has failed
HealthyLimiter == config.redis /\ ~limiter.faulted

\* C29: with a healthy cache, checkRateLimit returns true for at most
\* maxRequests calls between two expirations of the ratelimit key, and the
\* expiry of the key is set only by the call that raised the counter to 1,
\* on a key without an expiry, so that no later call extends the window.
C29_RateLimitHoldsPerWindow ==
  [][HealthyLimiter' =>
       /\ limiter'.granted <= limiter'.maxRequests
       /\ limiter'.ttl > limiter.ttl =>
            /\ limiter.ttl = 0
            /\ \E p \in Procs : /\ limiter.caller[p].pc = "expire"
                                /\ limiter.caller[p].current = 1
                                /\ limiter'.caller[p].pc = "idle"]_vars

\* in a second window of a healthy limiter, maxRequests calls have been
\* let through and a further one refused
C29_Witness ==
  /\ HealthyLimiter
  /\ limiter.lapsed = 1
  /\ limiter.ttl > 0
  /\ limiter.granted = limiter.maxRequests
  /\ limiter.count > limiter.maxRequests

====
